---- MODULE Spec2Model ----
(***************************************************************************)
(* Beam analysis core of the CLT toolbox: Material / Beam data, the        *)
(* BeamAnalysis facade, the simply-supported and two-span-unequal          *)
(* analyzers and the equation closures they return, together with the      *)
(* AnalysisPlotter.plot consumer that samples a closure and mutates the    *)
(* caller's Beam.                                                          *)
(*                                                                         *)
(* JavaScript numbers are modelled as exact rationals n/d * 2^a * 5^b      *)
(* together with the IEEE special values NaN and +-Infinity                *)
(* that division by zero and missing properties produce.  Rounding of      *)
(* binary doubles is not modelled; the inputs are small integers for       *)
(* which the quantities compared below are exact.                          *)
(***************************************************************************)
EXTENDS Integers, Sequences, FiniteSets, TLC

(***************************************************************************)
(* State                                                                   *)
(***************************************************************************)
VARIABLES
    copy,        \* which copy of the analysis code is loaded: 1 or 2
    analyzer,    \* BeamAnalysis.analyzer: condition tag -> analyzer class
    beam,        \* the caller's Beam object
    bundles,     \* the result bundles the caller holds, by slot
    outcome,     \* the last call: its arguments and what it returned or threw
    firstEval,   \* the first equation call made since its bundle was obtained
    chart,       \* AnalysisPlotter.chart
    canvasChart, \* Chart.getChart(container)
    liveCharts,  \* how many charts the plotter created are not destroyed
    layup        \* the LayupDrawer's drawLayup call and the image chains it started

vars == <<copy, analyzer, beam, bundles, outcome, firstEval, chart, canvasChart,
         liveCharts, layup>>

(***************************************************************************)
(* Numbers                                                                 *)
(*                                                                         *)
(* A finite number is n/d * 2^a * 5^b with n and d coprime to each other   *)
(* and to 10, so that 24 * EI with EI = 10^12, or a factor 10^9, stay      *)
(* small.                                                                  *)
(***************************************************************************)
RECURSIVE GCD(_, _)
GCD(a, b) == IF b = 0 THEN a ELSE GCD(b, a % b)

Abs(i) == IF i < 0 THEN -i ELSE i

Sgn(i) == IF i < 0 THEN -1 ELSE IF i = 0 THEN 0 ELSE 1

Min(i, j) == IF i < j THEN i ELSE j

RECURSIVE IntPow(_, _)
IntPow(base, k) == IF k <= 0 THEN 1 ELSE base * IntPow(base, k - 1)

NaN == [k |-> "nan"]

Inf(s) == [k |-> "inf", s |-> s]

Zero == [k |-> "fin", n |-> 0, d |-> 1, a |-> 0, b |-> 0]

\* The canonical form of n/d * 2^a * 5^b.  Equal numbers have equal
\* canonical forms.
RECURSIVE Canon(_, _, _, _)
Canon(n, d, a, b) ==
    IF n = 0 THEN Zero
    ELSE IF d < 0 THEN Canon(-n, -d, a, b)
    ELSE LET g == GCD(Abs(n), d) IN
         IF g > 1 THEN Canon(n \div g, d \div g, a, b)
         ELSE IF n % 2 = 0 THEN Canon(n \div 2, d, a + 1, b)
         ELSE IF n % 5 = 0 THEN Canon(n \div 5, d, a, b + 1)
         ELSE IF d % 2 = 0 THEN Canon(n, d \div 2, a - 1, b)
         ELSE IF d % 5 = 0 THEN Canon(n, d \div 5, a, b - 1)
         ELSE [k |-> "fin", n |-> n, d |-> d, a |-> a, b |-> b]

Num(i) == Canon(i, 1, 0, 0)

Rat(n, d) == Canon(n, d, 0, 0)

\* n * 10^e
Sci(n, e) == Canon(n, 1, e, e)

IsFin(v) == v.k = "fin"

\* typeof v === "number"
IsNumber(v) == v.k \in {"fin", "nan", "inf"}

Null == [k |-> "null"]

Undefined == [k |-> "undefined"]

\* A string value.  The strings of the model are not numeric literals.
Str(s) == [k |-> "string", s |-> s]

\* ToNumber of a value used in arithmetic or in a relational comparison:
\* undefined (a missing property, a missing argument) and a string that is
\* not a numeric literal become NaN, null becomes 0.
ToNumber(v) ==
    IF v.k \in {"undefined", "string"} THEN NaN
    ELSE IF v.k = "null" THEN Zero
    ELSE v

Sign(v) == IF v.k = "fin" THEN Sgn(v.n) ELSE IF v.k = "inf" THEN v.s ELSE 0

Neg(v) ==
    IF v.k = "fin" THEN [v EXCEPT !.n = -v.n]
    ELSE IF v.k = "inf" THEN Inf(-v.s)
    ELSE NaN

Mul(v, w) ==
    IF v.k = "nan" \/ w.k = "nan" THEN NaN
    ELSE IF v.k = "inf" \/ w.k = "inf"
         THEN IF Sign(v) = 0 \/ Sign(w) = 0 THEN NaN ELSE Inf(Sign(v) * Sign(w))
    ELSE Canon(v.n * w.n, v.d * w.d, v.a + w.a, v.b + w.b)

\* A zero divisor is the positive zero: every divisor in the analyzers is a
\* span, a sum of spans or a multiple of EI, none of which is ever -0.
Div(v, w) ==
    IF v.k = "nan" \/ w.k = "nan" THEN NaN
    ELSE IF v.k = "inf"
         THEN IF w.k = "inf" THEN NaN
              ELSE Inf(v.s * (IF Sign(w) < 0 THEN -1 ELSE 1))
    ELSE IF w.k = "inf" THEN Zero
    ELSE IF w.n = 0 THEN (IF v.n = 0 THEN NaN ELSE Inf(Sgn(v.n)))
    ELSE Canon(v.n * w.d, v.d * w.n, v.a - w.a, v.b - w.b)

Add(v, w) ==
    IF v.k = "nan" \/ w.k = "nan" THEN NaN
    ELSE IF v.k = "inf"
         THEN IF w.k = "inf" /\ w.s # v.s THEN NaN ELSE v
    ELSE IF w.k = "inf" THEN w
    ELSE IF v.n = 0 THEN w
    ELSE IF w.n = 0 THEN v
    ELSE LET a == Min(v.a, w.a)
             b == Min(v.b, w.b)
             l == (v.d \div GCD(v.d, w.d)) * w.d
         IN  Canon(v.n * IntPow(2, v.a - a) * IntPow(5, v.b - b) * (l \div v.d)
                     + w.n * IntPow(2, w.a - a) * IntPow(5, w.b - b) * (l \div w.d),
                   l, a, b)

Sub(v, w) == Add(v, Neg(w))

\* Math.pow(v, k) and v ** k for the small positive integer exponents used.
RECURSIVE MathPow(_, _)
MathPow(v, k) == IF k = 1 THEN v ELSE Mul(v, MathPow(v, k - 1))

\* The double just below the number v: what repeated additions of a double
\* leave when their rounding errors add up to a value short of v.  It
\* compares as less than v and greater than every number less than v, and
\* in arithmetic it counts as v.
JustBelow(v) ==
    [k |-> "fin", n |-> v.n, d |-> v.d, a |-> v.a, b |-> v.b, below |-> TRUE]

Drift(v) == IF "below" \in DOMAIN v THEN -1 ELSE 0

\* JavaScript's relational operators: the operands are converted with
\* ToNumber and the result is false when either is NaN.  Comparable(v) says
\* that ToNumber(v) is not NaN.  Of two operands of the same exact value the
\* one just below it is the smaller.
Comparable(v) == v.k \in {"fin", "inf", "null"}

Lt(v, w) ==
    /\ Comparable(v)
    /\ Comparable(w)
    /\ Sign(Sub(ToNumber(v), ToNumber(w))) < (IF Drift(v) < Drift(w) THEN 1 ELSE 0)

\* v === w: false for values of different types and for NaN.
StrictEq(v, w) == v.k # "nan" /\ w.k # "nan" /\ v = w

\* v <= w
Le(v, w) ==
    /\ Comparable(v)
    /\ Comparable(w)
    /\ Sign(Sub(ToNumber(v), ToNumber(w))) < (IF Drift(v) <= Drift(w) THEN 1 ELSE 0)

Gt(v, w) == Lt(w, v)

Ge(v, w) == Le(w, v)

\* v, the exact value of an expression the code evaluates in doubles, is
\* halfway between two multiples of 1/100: 200 * v is an odd integer.
Halfway(v) ==
    /\ v.k = "fin"
    /\ v.n # 0
    /\ Mul(v, Num(200)).d = 1
    /\ Mul(v, Num(200)).a = 0
    /\ Mul(v, Num(200)).b >= 0

\* parseFloat(v.toFixed(2)): the multiple of 1/100 nearest to the double;
\* NaN and the infinities pass through ("NaN", "Infinity").  toFixed is
\* applied to the double the arithmetic produced, which differs from the
\* exact value v by its rounding error: when v is halfway the double lies
\* on one side or the other, or is the halfway point itself (toFixed then
\* takes the larger magnitude).  `up` says that it goes to the multiple of
\* larger magnitude; the model does not compute the rounding error that
\* decides it.  A value that is not halfway rounds as its double does.
ToFixed2(v, up) ==
    IF v.k # "fin" THEN v
    ELSE LET h   == Mul(v, Num(200))
             num == Abs(h.n) * IntPow(2, h.a) * IntPow(5, h.b)
             den == h.d * IntPow(2, -h.a) * IntPow(5, -h.b)
             m   == IF Halfway(v) /\ ~up
                    THEN (num - den) \div (2 * den)
                    ELSE (num + den) \div (2 * den)
         IN  Canon(Sgn(v.n) * m, 100, 0, 0)

(***************************************************************************)
(* JavaScript values other than numbers                                    *)
(***************************************************************************)
\* obj[key] on a plain object modelled as a record: undefined when absent.
Get(obj, key) == IF key \in DOMAIN obj THEN obj[key] ELSE Undefined

\* Results of an equation call:
\*   an object   [t |-> "object", x |-> .., y |-> ..], or with a key
\*               "deflection" in place of "y",
\*   an array    [t |-> "array", items |-> << object, object >>],
\*   undefined   [t |-> "undefined"]  (the function fell off its end),
\*   a string    [t |-> "string", value |-> ..].
Point(x, y) == [t |-> "object", x |-> x, y |-> y]

Pair(p, q) == [t |-> "array", items |-> <<p, q>>]

NoResult == [t |-> "undefined"]

\* A string result.
Text(s) == [t |-> "string", value |-> s]

InvalidInput == Text("Invalid input: x must be a number.")

(***************************************************************************)
(* Material and Beam (part_001 lines 272-291)                              *)
(***************************************************************************)
Material(name, properties) == [name |-> name, properties |-> properties]

Beam(primarySpan, secondarySpan, material) ==
    [primarySpan |-> primarySpan, secondarySpan |-> secondarySpan,
     material |-> material]

(***************************************************************************)
(* Simply supported analyzer, first copy (part_001 lines 104-161)          *)
(***************************************************************************)
simplySupportedV1_getDeflectionEquation(b, load) ==
    [fn |-> "simplySupportedV1.deflection",
     primarySpan |-> b.primarySpan,
     EI |-> Get(b.material.properties, "EI"),
     load |-> load]

simplySupportedV1_deflection(c, x) ==
    LET L  == c.primarySpan
        w  == c.load
        EI == ToNumber(c.EI)
    IN  IF Ge(x, Zero) /\ Le(x, L)
        THEN Point(x,
               Div(Mul(Mul(w, x),
                       Add(Sub(MathPow(L, 3),
                               Mul(Mul(Num(2), L), MathPow(x, 2))),
                           MathPow(x, 3))),
                   Mul(Num(24), EI)))
        ELSE Point(x, Null)

simplySupportedV1_getBendingMomentEquation(b, load) ==
    [fn |-> "simplySupportedV1.bendingMoment",
     primarySpan |-> b.primarySpan,
     load |-> load]

simplySupportedV1_bendingMoment(c, x) ==
    LET L == c.primarySpan
        w == c.load
    IN  IF Ge(x, Zero) /\ Le(x, L)
        THEN Point(x, Div(Mul(Mul(w, x), Sub(L, x)), Num(2)))
        ELSE Point(x, Null)

simplySupportedV1_getShearForceEquation(b, load) ==
    [fn |-> "simplySupportedV1.shearForce",
     primarySpan |-> b.primarySpan,
     load |-> load]

simplySupportedV1_shearForce(c, x) ==
    LET L == c.primarySpan
        w == c.load
    IN  IF Ge(x, Zero) /\ Le(x, L)
        THEN Point(x, Mul(w, Sub(Div(L, Num(2)), x)))
        ELSE Point(x, Null)

(***************************************************************************)
(* Two-span analyzer, first copy (part_001 lines 169-260)                  *)
(***************************************************************************)
twoSpanUnequalV1_getDeflectionEquation(b, load) ==
    [fn |-> "twoSpanUnequalV1.deflection",
     primarySpan |-> b.primarySpan,
     secondarySpan |-> b.secondarySpan,
     EI |-> Get(b.material.properties, "EI"),
     load |-> load]

twoSpanUnequalV1_deflection(c, x) ==
    LET L1 == c.primarySpan
        L2 == c.secondarySpan
        w  == c.load
        EI == ToNumber(c.EI)
        x2 == Sub(x, L1)
    IN  IF Ge(x, Zero) /\ Le(x, L1)
        THEN Point(x,
               Div(Mul(Mul(w, x),
                       Add(Sub(MathPow(L1, 3),
                               Mul(Mul(Num(2), L1), MathPow(x, 2))),
                           MathPow(x, 3))),
                   Mul(Num(24), EI)))
        ELSE IF Gt(x, L1) /\ Le(x, Add(L1, L2))
        THEN Point(x,
               Div(Mul(Mul(w, x2),
                       Add(Sub(MathPow(L2, 3),
                               Mul(Mul(Num(2), L2), MathPow(x2, 2))),
                           MathPow(x2, 3))),
                   Mul(Num(24), EI)))
        ELSE Point(x, Null)

twoSpanUnequalV1_getBendingMomentEquation(b, load) ==
    [fn |-> "twoSpanUnequalV1.bendingMoment",
     primarySpan |-> b.primarySpan,
     secondarySpan |-> b.secondarySpan,
     load |-> load]

twoSpanUnequalV1_bendingMoment(c, x) ==
    LET L1 == c.primarySpan
        L2 == c.secondarySpan
        w  == c.load
        x2 == Sub(x, L1)
    IN  IF Ge(x, Zero) /\ Le(x, L1)
        THEN Point(x, Div(Mul(Mul(w, x), Sub(L1, x)), Num(2)))
        ELSE IF Gt(x, L1) /\ Le(x, Add(L1, L2))
        THEN Point(x, Div(Neg(Mul(Mul(w, x2), Sub(L2, x2))), Num(2)))
        ELSE Point(x, Null)

twoSpanUnequalV1_getShearForceEquation(b, load) ==
    [fn |-> "twoSpanUnequalV1.shearForce",
     primarySpan |-> b.primarySpan,
     secondarySpan |-> b.secondarySpan,
     load |-> load]

twoSpanUnequalV1_shearForce(c, x) ==
    LET L1 == c.primarySpan
        L2 == c.secondarySpan
        w  == c.load
        x2 == Sub(x, L1)
    IN  IF Ge(x, Zero) /\ Le(x, L1)
        THEN Point(x, Mul(w, Sub(Div(L1, Num(2)), x)))
        ELSE IF Gt(x, L1) /\ Le(x, Add(L1, L2))
        THEN Point(x, Mul(w, Sub(Div(L2, Num(2)), x2)))
        ELSE Point(x, Null)

(***************************************************************************)
(* Simply supported analyzer, second copy (part_001 lines 368-432)         *)
(***************************************************************************)
simplySupported_getDeflectionEquation(b, load) ==
    [fn |-> "simplySupported.deflection",
     primarySpan |-> b.primarySpan,
     j2 |-> Get(b.material.properties, "j2"),
     EI |-> Get(b.material.properties, "EI"),
     load |-> load]

\* The deflection with x^2 for x^3 in the last term of the polynomial.
simplySupported_deflection_square(c, x, up) ==
    LET L  == c.primarySpan
        w  == c.load
        EI == ToNumber(c.EI)
        j2 == ToNumber(c.j2)
        deflection ==
            Mul(Mul(Mul(Neg(Div(Mul(w, x), Mul(Num(24), EI))),
                        Add(Sub(MathPow(L, 3),
                                Mul(Mul(Num(2), L), MathPow(x, 2))),
                            MathPow(x, 2))),
                    j2),
                Num(1000))
    IN  IF Ge(x, Zero) /\ Le(x, L)
        THEN Point(x, ToFixed2(Mul(deflection, Sci(1, 9)), up))
        ELSE [t |-> "object", x |-> x, deflection |-> Null]

\* deflection * 1e9 of the returned function, for x within the span
simplySupported_deflectionE9(c, x) ==
    LET L  == c.primarySpan
        w  == c.load
        EI == ToNumber(c.EI)
        j2 == ToNumber(c.j2)
        deflection ==
            Mul(Mul(Mul(Neg(Div(Mul(w, x), Mul(Num(24), EI))),
                        Add(Sub(MathPow(L, 3),
                                Mul(Mul(Num(2), L), MathPow(x, 2))),
                            MathPow(x, 3))),
                    j2),
                Num(1000))
    IN  Mul(deflection, Sci(1, 9))

\* The returned function; `up` is the side its toFixed(2) takes when the
\* value is halfway.
simplySupported_deflection(c, x, up) ==
    IF Ge(x, Zero) /\ Le(x, c.primarySpan)
    THEN Point(x, ToFixed2(simplySupported_deflectionE9(c, x), up))
    ELSE [t |-> "object", x |-> x, deflection |-> Null]

simplySupported_getBendingMomentEquation(b, load) ==
    [fn |-> "simplySupported.bendingMoment",
     primarySpan |-> b.primarySpan,
     load |-> load]

\* The bending moment without the division by 2.
simplySupported_bendingMoment_noHalf(c, x) ==
    LET L == c.primarySpan
        w == c.load
    IN  IF Ge(x, Zero) /\ Le(x, L)
        THEN Point(x, Mul(Mul(w, x), Sub(L, x)))
        ELSE Point(x, Null)

simplySupported_bendingMoment(c, x) ==
    LET L == c.primarySpan
        w == c.load
    IN  IF Ge(x, Zero) /\ Le(x, L)
        THEN Point(x, Mul(Div(Mul(w, x), Num(2)), Sub(L, x)))
        ELSE Point(x, Null)

simplySupported_getShearForceEquation(b, load) ==
    [fn |-> "simplySupported.shearForce",
     primarySpan |-> b.primarySpan,
     load |-> load]

\* The shear force measured from the end of the span, not from midspan.
simplySupported_shearForce_fullSpan(c, x) ==
    LET L == c.primarySpan
        w == c.load
    IN  IF Ge(x, Zero) /\ Le(x, L)
        THEN Point(x, Mul(w, Sub(L, x)))
        ELSE Point(x, Null)

simplySupported_shearForce(c, x) ==
    LET L == c.primarySpan
        w == c.load
    IN  IF Ge(x, Zero) /\ Le(x, L)
        THEN Point(x, Mul(w, Sub(Div(L, Num(2)), x)))
        ELSE Point(x, Null)

(***************************************************************************)
(* Two-span analyzer, second copy (part_001 lines 440-615)                 *)
(*                                                                         *)
(* Each equation recomputes M1, R1, R3 and R2 from its captured spans and  *)
(* load; the three computations are separate pieces of code.               *)
(***************************************************************************)
twoSpanUnequal_deflectionReactions(c) ==
    LET L1  == c.primarySpan
        L2  == c.secondarySpan
        w   == c.load
        wl1 == Mul(w, L1)
        wl2 == Mul(w, L2)
        M1  == Neg(Div(Add(Mul(w, MathPow(L1, 3)), Mul(w, MathPow(L1, 3))),
                       Mul(Num(8), Add(L1, L2))))
        R1  == Add(Div(M1, L1), Div(wl1, Num(2)))
        R3  == Add(Div(M1, L2), Div(wl2, Num(2)))
        R2  == Sub(Sub(Add(wl1, wl2), R1), R3)
    IN  [M1 |-> M1, R1 |-> R1, R3 |-> R3, R2 |-> R2]

twoSpanUnequal_getDeflectionEquation(b, load) ==
    [fn |-> "twoSpanUnequal.deflection",
     primarySpan |-> b.primarySpan,
     secondarySpan |-> b.secondarySpan,
     j2 |-> Get(b.material.properties, "j2"),
     EI |-> Get(b.material.properties, "EI"),
     load |-> load]

\* The returned function, on the captured spans, load and properties and
\* the reactions `r` computed from them.
twoSpanUnequal_deflectionAt(c, r, x) ==
    LET L1 == c.primarySpan
        L2 == c.secondarySpan
        w  == c.load
        L  == Add(L1, L2)
        EI == ToNumber(c.EI)
        j2 == ToNumber(c.j2)
        R1 == r.R1
        R2 == r.R2
        EIs == Div(EI, MathPow(Num(1000), 3))
    IN  IF Ge(x, Zero) /\ Le(x, L1)
        THEN Point(x,
               Mul(Mul(Mul(Div(x, Mul(Num(24), EIs)),
                           Sub(Add(Sub(Mul(Mul(Num(4), R1), MathPow(x, 2)),
                                       Mul(w, MathPow(x, 3))),
                                   Mul(w, MathPow(L1, 3))),
                               Mul(Mul(Num(4), R1), MathPow(L1, 2)))),
                       Num(1000)),
                   j2))
        ELSE IF Gt(x, L1) /\ Le(x, L)
        THEN Point(x,
               Sub(Sub(Add(Mul(Mul(Div(Num(1), EIs),
                                   Div(Mul(R1, x), Num(6))),
                               Sub(MathPow(x, 2), MathPow(L1, 2))),
                           Mul(Div(Mul(R2, x), Num(6)),
                               Add(Sub(MathPow(x, 2),
                                       Mul(Mul(Num(3), L1), x)),
                                   Mul(Num(3), MathPow(L1, 2))))),
                       Div(Mul(R2, MathPow(L1, 3)), Num(6))),
                   Mul(Div(Mul(w, x), Num(24)),
                       Sub(MathPow(x, 3), MathPow(L1, 3)))))
        ELSE NoResult

twoSpanUnequal_deflection(c, x) ==
    twoSpanUnequal_deflectionAt(c, twoSpanUnequal_deflectionReactions(c), x)

twoSpanUnequal_bendingMomentReactions(c) ==
    LET L1  == c.primarySpan
        L2  == c.secondarySpan
        w   == c.load
        wl1 == Mul(w, L1)
        wl2 == Mul(w, L2)
        M1  == Neg(Div(Add(Mul(w, MathPow(L1, 3)), Mul(w, MathPow(L1, 3))),
                       Mul(Num(8), Add(L1, L2))))
        R1  == Add(Div(M1, L1), Div(wl1, Num(2)))
        R3  == Add(Div(M1, L2), Div(wl2, Num(2)))
        R2  == Sub(Sub(Add(wl1, wl2), R1), R3)
    IN  [M1 |-> M1, R1 |-> R1, R3 |-> R3, R2 |-> R2]

twoSpanUnequal_getBendingMomentEquation(b, load) ==
    [fn |-> "twoSpanUnequal.bendingMoment",
     primarySpan |-> b.primarySpan,
     secondarySpan |-> b.secondarySpan,
     load |-> load]

\* The bending moment whose value at the right end leaves out the interior
\* reaction.
twoSpanUnequal_bendingMomentAt_noR2(c, r, x) ==
    LET L1 == c.primarySpan
        L2 == c.secondarySpan
        w  == c.load
        L  == Add(L1, L2)
        R1 == r.R1
        R2 == r.R2
    IN  IF StrictEq(x, Zero)
        THEN Point(x, Zero)
        ELSE IF Gt(x, Zero) /\ Lt(x, L1)
        THEN Point(x, Sub(Mul(R1, x), Div(Mul(w, MathPow(x, 2)), Num(2))))
        ELSE IF StrictEq(x, L1)
        THEN Pair(Point(x, Sub(Mul(R1, L1),
                               Div(Mul(w, MathPow(L1, 2)), Num(2)))),
                  Point(x, Sub(Add(Mul(R1, L1), Mul(R2, Zero)),
                               Div(Mul(w, MathPow(L1, 2)), Num(2)))))
        ELSE IF Gt(x, L1) /\ Lt(x, L)
        THEN Point(x, Sub(Add(Mul(R1, x), Mul(R2, Sub(x, L1))),
                          Div(Mul(w, MathPow(x, 2)), Num(2))))
        ELSE IF StrictEq(x, L)
        THEN Point(x, Sub(Mul(R1, L), Div(Mul(w, MathPow(L, 2)), Num(2))))
        ELSE Point(x, Null)

\* The returned function for a number x, on the captured spans and load and
\* the reactions `r` it computes from them.
twoSpanUnequal_bendingMomentAt(c, r, x) ==
    LET L1 == c.primarySpan
        L2 == c.secondarySpan
        w  == c.load
        L  == Add(L1, L2)
        R1 == r.R1
        R2 == r.R2
    IN  IF StrictEq(x, Zero)
        THEN Point(x, Zero)
        ELSE IF Gt(x, Zero) /\ Lt(x, L1)
        THEN Point(x, Sub(Mul(R1, x), Div(Mul(w, MathPow(x, 2)), Num(2))))
        ELSE IF StrictEq(x, L1)
        THEN Pair(Point(x, Sub(Mul(R1, L1),
                               Div(Mul(w, MathPow(L1, 2)), Num(2)))),
                  Point(x, Sub(Add(Mul(R1, L1), Mul(R2, Zero)),
                               Div(Mul(w, MathPow(L1, 2)), Num(2)))))
        ELSE IF Gt(x, L1) /\ Lt(x, L)
        THEN Point(x, Sub(Add(Mul(R1, x), Mul(R2, Sub(x, L1))),
                          Div(Mul(w, MathPow(x, 2)), Num(2))))
        ELSE IF StrictEq(x, L)
        THEN Point(x, Sub(Add(Mul(R1, L), Mul(R2, Sub(L, L1))),
                          Div(Mul(w, MathPow(L, 2)), Num(2))))
        ELSE Point(x, Null)

\* The bending moment with the end reactions R1 and R3 exchanged.
twoSpanUnequal_bendingMoment_endsSwapped(c, x) ==
    IF ~IsNumber(x)
    THEN InvalidInput
    ELSE twoSpanUnequal_bendingMomentAt(
             c,
             [twoSpanUnequal_bendingMomentReactions(c) EXCEPT
                 !.R1 = twoSpanUnequal_bendingMomentReactions(c).R3,
                 !.R3 = twoSpanUnequal_bendingMomentReactions(c).R1],
             x)

twoSpanUnequal_bendingMoment(c, x) ==
    IF ~IsNumber(x)
    THEN InvalidInput
    ELSE twoSpanUnequal_bendingMomentAt(c, twoSpanUnequal_bendingMomentReactions(c), x)

\* The reactions with the second span's cube in M1.
twoSpanUnequal_shearForceReactions_L2cubed(c) ==
    LET L1  == c.primarySpan
        L2  == c.secondarySpan
        w   == c.load
        wl1 == Mul(w, L1)
        wl2 == Mul(w, L2)
        M1  == Neg(Div(Add(Mul(w, MathPow(L1, 3)), Mul(w, MathPow(L2, 3))),
                       Mul(Num(8), Add(L1, L2))))
        R1  == Add(Div(M1, L1), Div(wl1, Num(2)))
        R3  == Add(Div(M1, L2), Div(wl2, Num(2)))
        R2  == Sub(Sub(Add(wl1, wl2), R1), R3)
    IN  [M1 |-> M1, R1 |-> R1, R3 |-> R3, R2 |-> R2]

twoSpanUnequal_shearForceReactions(c) ==
    LET L1  == c.primarySpan
        L2  == c.secondarySpan
        w   == c.load
        wl1 == Mul(w, L1)
        wl2 == Mul(w, L2)
        M1  == Neg(Div(Add(Mul(w, MathPow(L1, 3)), Mul(w, MathPow(L1, 3))),
                       Mul(Num(8), Add(L1, L2))))
        R1  == Add(Div(M1, L1), Div(wl1, Num(2)))
        R3  == Add(Div(M1, L2), Div(wl2, Num(2)))
        R2  == Sub(Sub(Add(wl1, wl2), R1), R3)
    IN  [M1 |-> M1, R1 |-> R1, R3 |-> R3, R2 |-> R2]

twoSpanUnequal_getShearForceEquation(b, load) ==
    [fn |-> "twoSpanUnequal.shearForce",
     primarySpan |-> b.primarySpan,
     secondarySpan |-> b.secondarySpan,
     load |-> load]

\* The returned function for a number x, on the captured spans and load and
\* the reactions R1 and R2 it computes from them.
twoSpanUnequal_shearForceAt(L1, L2, w, R1, R2, x) ==
    LET totalLength == Add(L1, L2)
    IN  IF StrictEq(x, Zero)
        THEN Point(x, R1)
        ELSE IF Gt(x, Zero) /\ Lt(x, L1)
        THEN Point(x, Sub(R1, Mul(w, x)))
        ELSE IF StrictEq(x, L1)
        THEN Pair(Point(x, Sub(R1, Mul(w, L1))),
                  Point(x, Sub(Add(R1, R2), Mul(w, L1))))
        ELSE IF Gt(x, L1) /\ Lt(x, totalLength)
        THEN Point(x, Sub(Add(R1, R2), Mul(w, x)))
        ELSE IF StrictEq(x, totalLength)
        THEN Point(x, Sub(Add(R1, R2), Mul(w, totalLength)))
        ELSE Point(x, Null)

\* The shear force with R3 added at the interior support in place of R2.
twoSpanUnequal_shearForce_jumpR3(c, x) ==
    twoSpanUnequal_shearForceAt(c.primarySpan, c.secondarySpan, c.load,
                                twoSpanUnequal_shearForceReactions(c).R1,
                                twoSpanUnequal_shearForceReactions(c).R3, x)

\* The shear force reading the Beam's secondarySpan when called, not the
\* one captured when the closure was made.
twoSpanUnequal_shearForce_liveBeam(c, x) ==
    twoSpanUnequal_shearForceAt(c.primarySpan, beam.secondarySpan, c.load,
                                twoSpanUnequal_shearForceReactions(c).R1,
                                twoSpanUnequal_shearForceReactions(c).R2, x)

twoSpanUnequal_shearForce(c, x) ==
    IF ~IsNumber(x)
    THEN InvalidInput
    ELSE twoSpanUnequal_shearForceAt(c.primarySpan, c.secondarySpan, c.load,
                                     twoSpanUnequal_shearForceReactions(c).R1,
                                     twoSpanUnequal_shearForceReactions(c).R2, x)

\* Calling an equation closure: the function body that `fn` names, run on
\* the values the closure captured.  `up` is the side a toFixed(2) in the
\* body takes at a halfway value.
Call(c, x, up) ==
    CASE c.fn = "simplySupportedV1.deflection"    -> simplySupportedV1_deflection(c, x)
      [] c.fn = "simplySupportedV1.bendingMoment" -> simplySupportedV1_bendingMoment(c, x)
      [] c.fn = "simplySupportedV1.shearForce"    -> simplySupportedV1_shearForce(c, x)
      [] c.fn = "twoSpanUnequalV1.deflection"     -> twoSpanUnequalV1_deflection(c, x)
      [] c.fn = "twoSpanUnequalV1.bendingMoment"  -> twoSpanUnequalV1_bendingMoment(c, x)
      [] c.fn = "twoSpanUnequalV1.shearForce"     -> twoSpanUnequalV1_shearForce(c, x)
      [] c.fn = "simplySupported.deflection"      -> simplySupported_deflection(c, x, up)
      [] c.fn = "simplySupported.bendingMoment"   -> simplySupported_bendingMoment(c, x)
      [] c.fn = "simplySupported.shearForce"      -> simplySupported_shearForce(c, x)
      [] c.fn = "twoSpanUnequal.deflection"       -> twoSpanUnequal_deflection(c, x)
      [] c.fn = "twoSpanUnequal.bendingMoment"    -> twoSpanUnequal_bendingMoment(c, x)
      [] c.fn = "twoSpanUnequal.shearForce"       -> twoSpanUnequal_shearForce(c, x)

\* The sides the doubles of the call c(x) may take: both when the value the
\* body hands to toFixed(2) is halfway, and one when it is not or the body
\* has no toFixed.
Roundings(c, x) ==
    IF /\ c.fn = "simplySupported.deflection"
       /\ Ge(x, Zero)
       /\ Le(x, c.primarySpan)
       /\ Halfway(simplySupported_deflectionE9(c, x))
    THEN BOOLEAN
    ELSE {TRUE}

\* The results the call c(x) may return.
Outcomes(c, x) == {Call(c, x, up) : up \in Roundings(c, x)}

(***************************************************************************)
(* Analyzer classes: the method an analyzer object answers to              *)
(***************************************************************************)
getDeflectionEquation(class, b, load) ==
    CASE class = "simplySupportedV1" -> simplySupportedV1_getDeflectionEquation(b, load)
      [] class = "twoSpanUnequalV1"  -> twoSpanUnequalV1_getDeflectionEquation(b, load)
      [] class = "simplySupported"   -> simplySupported_getDeflectionEquation(b, load)
      [] class = "twoSpanUnequal"    -> twoSpanUnequal_getDeflectionEquation(b, load)

getBendingMomentEquation(class, b, load) ==
    CASE class = "simplySupportedV1" -> simplySupportedV1_getBendingMomentEquation(b, load)
      [] class = "twoSpanUnequalV1"  -> twoSpanUnequalV1_getBendingMomentEquation(b, load)
      [] class = "simplySupported"   -> simplySupported_getBendingMomentEquation(b, load)
      [] class = "twoSpanUnequal"    -> twoSpanUnequal_getBendingMomentEquation(b, load)

getShearForceEquation(class, b, load) ==
    CASE class = "simplySupportedV1" -> simplySupportedV1_getShearForceEquation(b, load)
      [] class = "twoSpanUnequalV1"  -> twoSpanUnequalV1_getShearForceEquation(b, load)
      [] class = "simplySupported"   -> simplySupported_getShearForceEquation(b, load)
      [] class = "twoSpanUnequal"    -> twoSpanUnequal_getShearForceEquation(b, load)

(***************************************************************************)
(* BeamAnalysis facade                                                     *)
(***************************************************************************)
\* this.analyzer as built by the constructor of each copy.
BeamAnalysisV1_constructor ==
    [c \in {"simply-supported", "two-span-unequal"} |->
        IF c = "simply-supported" THEN "simplySupportedV1" ELSE "twoSpanUnequalV1"]

BeamAnalysis_constructor ==
    [c \in {"simply-supported", "two-span-unequal"} |->
        IF c = "simply-supported" THEN "simplySupported" ELSE "twoSpanUnequal"]

\* Property names every plain object inherits from Object.prototype.
ObjectPrototypeKeys ==
    {"constructor", "toString", "toLocaleString", "valueOf", "hasOwnProperty",
     "isPrototypeOf", "propertyIsEnumerable", "__proto__", "__defineGetter__",
     "__defineSetter__", "__lookupGetter__", "__lookupSetter__"}

\* this.analyzer[condition]: an own property is the registered analyzer, an
\* inherited one is some function of Object.prototype, anything else is
\* undefined.
Lookup(registry, condition) ==
    IF condition \in DOMAIN registry
    THEN [t |-> "analyzer", class |-> registry[condition]]
    ELSE IF condition \in ObjectPrototypeKeys
    THEN [t |-> "inherited"]
    ELSE [t |-> "undefined"]

Return(v) == [t |-> "return", value |-> v]

Throw(error, message) == [t |-> "throw", error |-> error, message |-> message]

\* First copy (part_001 lines 50-88): the bundle has no condition field.
BeamAnalysisV1_getDeflection(registry, ref, b, load, condition) ==
    LET analyzer_ == Lookup(registry, condition) IN
    IF analyzer_.t = "analyzer"
    THEN Return([beam |-> ref, load |-> load,
                 equation |-> getDeflectionEquation(analyzer_.class, b, load)])
    ELSE IF analyzer_.t = "inherited"
    THEN Throw("TypeError", "analyzer.getDeflectionEquation is not a function")
    ELSE Throw("Error", "Invalid condition")

BeamAnalysisV1_getBendingMoment(registry, ref, b, load, condition) ==
    LET analyzer_ == Lookup(registry, condition) IN
    IF analyzer_.t = "analyzer"
    THEN Return([beam |-> ref, load |-> load,
                 equation |-> getBendingMomentEquation(analyzer_.class, b, load)])
    ELSE IF analyzer_.t = "inherited"
    THEN Throw("TypeError", "analyzer.getBendingMomentEquation is not a function")
    ELSE Throw("Error", "Invalid condition")

BeamAnalysisV1_getShearForce(registry, ref, b, load, condition) ==
    LET analyzer_ == Lookup(registry, condition) IN
    IF analyzer_.t = "analyzer"
    THEN Return([beam |-> ref, load |-> load,
                 equation |-> getShearForceEquation(analyzer_.class, b, load)])
    ELSE IF analyzer_.t = "inherited"
    THEN Throw("TypeError", "analyzer.getShearForceEquation is not a function")
    ELSE Throw("Error", "Invalid condition")

\* Second copy (part_001 lines 311-352).
BeamAnalysis_getDeflection(registry, ref, b, load, condition) ==
    LET analyzer_ == Lookup(registry, condition) IN
    IF analyzer_.t = "analyzer"
    THEN Return([beam |-> ref, load |-> load,
                 equation |-> getDeflectionEquation(analyzer_.class, b, load),
                 condition |-> condition])
    ELSE IF analyzer_.t = "inherited"
    THEN Throw("TypeError", "analyzer.getDeflectionEquation is not a function")
    ELSE Throw("Error", "Invalid condition")

BeamAnalysis_getBendingMoment(registry, ref, b, load, condition) ==
    LET analyzer_ == Lookup(registry, condition) IN
    IF analyzer_.t = "analyzer"
    THEN Return([beam |-> ref, load |-> load,
                 equation |-> getBendingMomentEquation(analyzer_.class, b, load),
                 condition |-> condition])
    ELSE IF analyzer_.t = "inherited"
    THEN Throw("TypeError", "analyzer.getBendingMomentEquation is not a function")
    ELSE Throw("Error", "Invalid condition")

BeamAnalysis_getShearForce(registry, ref, b, load, condition) ==
    LET analyzer_ == Lookup(registry, condition) IN
    IF analyzer_.t = "analyzer"
    THEN Return([beam |-> ref, load |-> load,
                 equation |-> getShearForceEquation(analyzer_.class, b, load),
                 condition |-> condition])
    ELSE IF analyzer_.t = "inherited"
    THEN Throw("TypeError", "analyzer.getShearForceEquation is not a function")
    ELSE Throw("Error", "Invalid condition")

(***************************************************************************)
(* AnalysisPlotter (part_000)                                              *)
(***************************************************************************)
step == Rat(1, 2)

\* for (let x = from; x <= limit; x += step) push(x)
RECURSIVE XValues(_, _)
XValues(x, limit) ==
    IF Le(x, limit) THEN <<x>> \o XValues(Add(x, step), limit) ELSE <<>>

\* The y a series point takes from an equation result: element `i` of an
\* array result, the result's own y otherwise (undefined when it has none).
\* Reading .y of an undefined result is a TypeError.
SeriesY(result, i) ==
    IF result.t = "array" THEN Get(result.items[i], "y")
    ELSE Get(result, "y")

\* xs.map((x) => equation(x)): the results of the sampled calls, one
\* sequence for each way the calls at halfway values may round (`ups` are
\* the calls that go up).
Results(equation, xs) ==
    {[j \in 1..Len(xs) |-> Call(equation, xs[j], j \in ups)] :
        ups \in SUBSET {j \in 1..Len(xs) : Roundings(equation, xs[j]) = BOOLEAN}}

PlotThrows(results) ==
    \E j \in 1..Len(results) : results[j].t = "undefined"

Points(xs, results, i) ==
    [j \in 1..Len(xs) |-> [x |-> xs[j], y |-> SeriesY(results[j], i)]]

\* The configuration handed to `new Chart`, from the points of the two
\* series; `simply` is whether the bundle's condition is "simply-supported".
ChartConfig(pointsPrimary, pointsSecondary, simply) ==
    LET labelsPrimary    == [j \in 1..Len(pointsPrimary) |-> pointsPrimary[j].x]
        labelsAll        == [j \in 1..Len(pointsSecondary) |-> pointsSecondary[j].x]
        dataPrimary      == [j \in 1..Len(pointsPrimary) |-> pointsPrimary[j].y]
        dataSecondary    == [j \in 1..Len(pointsSecondary) |-> pointsSecondary[j].y]
        labelsSecondary  == IF simply /\ labelsAll # <<>>
                            THEN Tail(labelsAll) ELSE labelsAll
    IN  [labels   |-> labelsPrimary \o labelsSecondary,
         datasets |->
            << [j \in 1..Len(labelsPrimary) |->
                   [x |-> labelsPrimary[j], y |-> dataPrimary[j]]],
               [j \in 1..Len(labelsSecondary) |->
                   [x |-> labelsSecondary[j], y |-> dataSecondary[j]]] >>]

(***************************************************************************)
(* AnalysisPlotter, original version (src/js/analysis-plotter.js)          *)
(*                                                                         *)
(* The loop variable x is a double and 0.1 is not one exactly: after the    *)
(* first x += step it differs from the exact multiple of 1/10 by rounding  *)
(* error.  The error matters where x is compared with an equal exact       *)
(* value, which is at the loop's limit: there the double lies below the    *)
(* limit, on it or above it.  The model does not compute the error; the    *)
(* side is `drift` (-1, 0, 1), chosen by the action.  Elsewhere a position *)
(* is the exact multiple.                                                  *)
(***************************************************************************)
stepJs == Rat(1, 10)

Drifts == {-1, 0, 1}

\* The positions after the first one: x has been through x += step.
RECURSIVE SteppedJs(_, _, _, _)
SteppedJs(x, limit, closed, drift) ==
    IF Lt(x, limit)
    THEN <<x>> \o SteppedJs(Add(x, stepJs), limit, closed, drift)
    ELSE IF Le(x, limit) /\ drift < 0
    THEN <<JustBelow(x)>>
    ELSE IF Le(x, limit) /\ drift = 0 /\ closed
    THEN <<x>>
    ELSE <<>>

\* for (let x = from; x < limit; x += step), or x <= limit when `closed`
XValuesJs(from, limit, closed, drift) ==
    IF Lt(from, limit) \/ (closed /\ Le(from, limit))
    THEN <<from>> \o SteppedJs(Add(from, stepJs), limit, closed, drift)
    ELSE <<>>

\* xs.map((x) => ({ x, y: equation(x).y })): an array result has no y.
PointsJs(xs, results) ==
    [j \in 1..Len(xs) |-> [x |-> xs[j], y |-> Get(results[j], "y")]]

\* p.x.toFixed(2): the string of the number rounded to two decimals.
LabelJs(v, up) == [k |-> "string", fixed |-> ToFixed2(v, up)]

\* The points whose x is halfway between two multiples of 1/100.
LabelTies(points) == {j \in 1..Len(points) : Halfway(points[j].x)}

\* The labels and the data of the chart; `ups` are the points whose label
\* goes to the larger magnitude at a halfway x.
ChartConfigJs(points, ups) ==
    [labels   |-> [j \in 1..Len(points) |-> LabelJs(points[j].x, j \in ups)],
     datasets |-> << [j \in 1..Len(points) |-> points[j].y] >>]

None == [t |-> "none"]

\* The one Beam object; bundles hold a reference to it.
BeamRef == "beam"

(***************************************************************************)
(* Bounds and input sets                                                   *)
(***************************************************************************)
MaxSpan == 4

Spans == {Num(i) : i \in 0..MaxSpan}

\* A material with both properties the analyzers read, and one without j2.
Clt == Material("clt", [EI |-> Sci(1, 12), j2 |-> Num(2)])

Bare == Material("bare", [EI |-> Sci(2, 12)])

Loads == {Num(-5), Num(5), Num(10)}

Conditions == {"simply-supported", "two-span-unequal", "unknown", "constructor"}

\* Positions: every half from -1/2 to 2*MaxSpan + 1/2.
Positions == {Rat(i, 2) : i \in -1..(4 * MaxSpan + 1)}

Slots == {1, 2}

\* The small inputs of the two-bundle session.
SmallLoads == {Num(5)}

SmallPositions == {Num(1), Num(3)}

(***************************************************************************)
(* Operations                                                              *)
(***************************************************************************)
\* A facade call's effect on the caller: a returned bundle is stored in the
\* slot, a thrown error leaves the caller with what it had.
Received(s, r) == IF r.t = "return" THEN [bundles EXCEPT ![s] = r.value] ELSE bundles

Forgotten(s, r) ==
    IF r.t = "return" /\ firstEval # None /\ firstEval.slot = s
    THEN None ELSE firstEval

GetDeflection(s, w, condition) ==
    LET r == IF copy = 1
             THEN BeamAnalysisV1_getDeflection(analyzer, BeamRef, beam, w, condition)
             ELSE BeamAnalysis_getDeflection(analyzer, BeamRef, beam, w, condition)
    IN  /\ outcome' = [op |-> "getDeflection", slot |-> s,
                       args |-> [beam |-> BeamRef, load |-> w, condition |-> condition],
                       result |-> r]
        /\ bundles' = Received(s, r)
        /\ firstEval' = Forgotten(s, r)
        /\ UNCHANGED <<copy, analyzer, beam, chart, canvasChart, liveCharts, layup>>

GetBendingMoment(s, w, condition) ==
    LET r == IF copy = 1
             THEN BeamAnalysisV1_getBendingMoment(analyzer, BeamRef, beam, w, condition)
             ELSE BeamAnalysis_getBendingMoment(analyzer, BeamRef, beam, w, condition)
    IN  /\ outcome' = [op |-> "getBendingMoment", slot |-> s,
                       args |-> [beam |-> BeamRef, load |-> w, condition |-> condition],
                       result |-> r]
        /\ bundles' = Received(s, r)
        /\ firstEval' = Forgotten(s, r)
        /\ UNCHANGED <<copy, analyzer, beam, chart, canvasChart, liveCharts, layup>>

\* getShearForce forcing the Beam's secondarySpan to 0 for the simply
\* supported condition, as plot does.
GetShearForce_resetsSpan(s, w, condition) ==
    LET r == IF copy = 1
             THEN BeamAnalysisV1_getShearForce(analyzer, BeamRef, beam, w, condition)
             ELSE BeamAnalysis_getShearForce(analyzer, BeamRef, beam, w, condition)
    IN  /\ outcome' = [op |-> "getShearForce", slot |-> s,
                       args |-> [beam |-> BeamRef, load |-> w, condition |-> condition],
                       result |-> r]
        /\ bundles' = Received(s, r)
        /\ firstEval' = Forgotten(s, r)
        /\ beam' = IF condition = "simply-supported"
                   THEN [beam EXCEPT !.secondarySpan = Zero] ELSE beam
        /\ UNCHANGED <<copy, analyzer, chart, canvasChart, liveCharts, layup>>

GetShearForce(s, w, condition) ==
    LET r == IF copy = 1
             THEN BeamAnalysisV1_getShearForce(analyzer, BeamRef, beam, w, condition)
             ELSE BeamAnalysis_getShearForce(analyzer, BeamRef, beam, w, condition)
    IN  /\ outcome' = [op |-> "getShearForce", slot |-> s,
                       args |-> [beam |-> BeamRef, load |-> w, condition |-> condition],
                       result |-> r]
        /\ bundles' = Received(s, r)
        /\ firstEval' = Forgotten(s, r)
        /\ UNCHANGED <<copy, analyzer, beam, chart, canvasChart, liveCharts, layup>>

\* bundles[s].equation(x)
Evaluate(s, x) ==
    /\ bundles[s] # None
    /\ \E result \in Outcomes(bundles[s].equation, x) :
         outcome' = [op |-> "equation", slot |-> s, x |-> x, result |-> result]
    /\ UNCHANGED <<copy, analyzer, beam, bundles, firstEval, chart, canvasChart,
                 liveCharts, layup>>

\* The same call, the caller noting the first result it gets from a bundle
\* (of the bundles it holds, the first it evaluates).
EvaluateNoting(s, x) ==
    /\ bundles[s] # None
    /\ \E result \in Outcomes(bundles[s].equation, x) :
         outcome' = [op |-> "equation", slot |-> s, x |-> x, result |-> result]
    /\ firstEval' = IF firstEval = None
                    THEN [slot |-> s, x |-> x, result |-> outcome'.result]
                    ELSE firstEval
    /\ UNCHANGED <<copy, analyzer, beam, bundles, chart, canvasChart, liveCharts, layup>>

\* The charts of the plotter left undestroyed by reset: `existingChart` and
\* `this.chart` are the same Chart, the one the plotter made last, and
\* destroy() on it when it is already destroyed changes nothing.
AfterReset == IF chart # None \/ canvasChart # None THEN liveCharts - 1 ELSE liveCharts

\* AnalysisPlotter.reset (part_000 lines 12-24)
Reset ==
    /\ chart' = None
    /\ canvasChart' = None
    /\ liveCharts' = AfterReset
    /\ outcome' = [op |-> "reset"]
    /\ UNCHANGED <<copy, analyzer, beam, bundles, firstEval, layup>>

\* plot making its chart without the reset before it.
Plotted_noReset(s, b, simply, xsP, xsS, rs) ==
    IF PlotThrows(rs)
    THEN /\ outcome' = [op |-> "plot", slot |-> s,
                        result |-> Throw("TypeError",
                                         "Cannot read properties of undefined")]
         /\ UNCHANGED <<chart, canvasChart, liveCharts>>
    ELSE /\ outcome' = [op |-> "plot", slot |-> s, result |-> Return(Undefined),
                        pointsPrimary |-> Points(xsP, SubSeq(rs, 1, Len(xsP)), 1),
                        pointsSecondary |->
                            Points(xsS, SubSeq(rs, Len(xsP) + 1, Len(rs)), 2)]
         /\ chart' = ChartConfig(outcome'.pointsPrimary, outcome'.pointsSecondary,
                                 simply)
         /\ canvasChart' = chart'
         /\ liveCharts' = liveCharts + 1

\* AnalysisPlotter.plot(bundles[s]) (part_000 lines 31-153); `rs` are the
\* results of the sampled calls, those at xsP followed by those at xsS.
Plotted(s, b, simply, xsP, xsS, rs) ==
    IF PlotThrows(rs)
    THEN /\ outcome' = [op |-> "plot", slot |-> s,
                        result |-> Throw("TypeError",
                                         "Cannot read properties of undefined")]
         /\ UNCHANGED <<chart, canvasChart, liveCharts>>
    ELSE /\ outcome' = [op |-> "plot", slot |-> s, result |-> Return(Undefined),
                        pointsPrimary |-> Points(xsP, SubSeq(rs, 1, Len(xsP)), 1),
                        pointsSecondary |->
                            Points(xsS, SubSeq(rs, Len(xsP) + 1, Len(rs)), 2)]
         /\ chart' = ChartConfig(outcome'.pointsPrimary, outcome'.pointsSecondary,
                                 simply)
         /\ canvasChart' = chart'
         /\ liveCharts' = AfterReset + 1

Sampled(s, b, simply, xsP, xsS) ==
    \E rs \in Results(bundles[s].equation, xsP \o xsS) :
        Plotted(s, b, simply, xsP, xsS, rs)

\* plot forcing the Beam's secondarySpan to 0 whatever the condition.
Plot_anyCondition(s) ==
    /\ bundles[s] # None
    /\ LET data   == bundles[s]
           simply == "condition" \in DOMAIN data /\ data.condition = "simply-supported"
           b      == [beam EXCEPT !.secondarySpan = Zero]
       IN  /\ beam' = b
           /\ Sampled(s, b, simply,
                      XValues(Zero, b.primarySpan),
                      XValues(b.primarySpan, Add(b.primarySpan, b.secondarySpan)))
    /\ UNCHANGED <<copy, analyzer, bundles, firstEval, layup>>

Plot(s) ==
    /\ bundles[s] # None
    /\ LET data   == bundles[s]
           simply == "condition" \in DOMAIN data /\ data.condition = "simply-supported"
           b      == IF simply THEN [beam EXCEPT !.secondarySpan = Zero] ELSE beam
       IN  /\ beam' = b
           /\ Sampled(s, b, simply,
                      XValues(Zero, b.primarySpan),
                      XValues(b.primarySpan, Add(b.primarySpan, b.secondarySpan)))
    /\ UNCHANGED <<copy, analyzer, bundles, firstEval, layup>>

\* The charts of the plotter left undestroyed by the original reset.
AfterResetJs == IF chart # None THEN liveCharts - 1 ELSE liveCharts

\* AnalysisPlotter.reset (src/js/analysis-plotter.js lines 15-20); a
\* destroyed chart is no longer the one registered for the canvas.
ResetJs ==
    /\ chart' = None
    /\ canvasChart' = IF chart # None THEN None ELSE canvasChart
    /\ liveCharts' = AfterResetJs
    /\ outcome' = [op |-> "reset"]
    /\ UNCHANGED <<copy, analyzer, beam, bundles, firstEval, layup>>

\* AnalysisPlotter.plot(bundles[s]) (src/js/analysis-plotter.js lines
\* 27-117); `rs` are the results of the sampled calls.
PlottedJs(s, xsP, xsS, rs) ==
    IF PlotThrows(rs)
    THEN /\ outcome' = [op |-> "plot", slot |-> s,
                        result |-> Throw("TypeError",
                                         "Cannot read properties of undefined")]
         /\ UNCHANGED <<chart, canvasChart, liveCharts>>
    ELSE /\ outcome' = [op |-> "plot", slot |-> s, result |-> Return(Undefined),
                        pointsPrimary |-> PointsJs(xsP, SubSeq(rs, 1, Len(xsP))),
                        pointsSecondary |->
                            PointsJs(xsS, SubSeq(rs, Len(xsP) + 1, Len(rs)))]
         /\ \E ups \in SUBSET LabelTies(outcome'.pointsPrimary \o outcome'.pointsSecondary) :
              chart' = ChartConfigJs(outcome'.pointsPrimary \o outcome'.pointsSecondary,
                                     ups)
         /\ canvasChart' = chart'
         /\ liveCharts' = AfterResetJs + 1

SampledJs(s, xsP, xsS) ==
    \E rs \in Results(bundles[s].equation, xsP \o xsS) :
        PlottedJs(s, xsP, xsS, rs)

PlotJs(s) ==
    /\ bundles[s] # None
    /\ \E xsP \in {XValuesJs(Zero, beam.primarySpan, FALSE, drift) : drift \in Drifts} :
       \E xsS \in {XValuesJs(beam.primarySpan,
                             Add(beam.primarySpan, beam.secondarySpan), TRUE, drift) :
                       drift \in Drifts} :
         SampledJs(s, xsP, xsS)
    /\ UNCHANGED <<copy, analyzer, beam, bundles, firstEval, layup>>

(***************************************************************************)
(* LayupDrawer.drawLayup (part_002)                                        *)
(*                                                                         *)
(* A layer is [thickness, angle].  `layup` holds the arguments of the      *)
(* drawLayup call, the scale it computed, and one record for each time the *)
(* chart's animation.onComplete ran the inner drawLayup: its yOffset, the  *)
(* Image whose load or error is awaited, the layers its handlers have      *)
(* processed with the yOffset each was drawn at, and which handler ran     *)
(* last.  Canvas drawing calls are taken not to throw.                     *)
(***************************************************************************)
canvasHeight == 435

Runs == {1, 2}

NoImage == [t |-> "none"]

NotStarted ==
    [started |-> FALSE, yOffset |-> Zero, image |-> NoImage, processed |-> <<>>,
     event |-> "none"]

NotDrawn ==
    [called |-> FALSE, layupData |-> <<>>, thicknessScale |-> Zero,
     runs |-> [r \in Runs |-> NotStarted]]

\* layupData.reduce((sum, layer) => sum + layer.thickness, 0)
RECURSIVE totalThickness(_)
totalThickness(layupData) ==
    IF layupData = <<>> THEN Zero
    ELSE Add(totalThickness(SubSeq(layupData, 1, Len(layupData) - 1)),
             layupData[Len(layupData)].thickness)

\* drawLayer(layupData[index], yOffset, callback, ..): a new Image whose
\* handlers hold the layer's index and the yOffset passed in.
drawLayer(index, yOffset) == [t |-> "image", index |-> index, yOffset |-> yOffset]

\* drawNext(index) in a run whose yOffset is `yOffset`
drawNext(index, yOffset) ==
    IF index >= 0 THEN drawLayer(index, yOffset) ELSE NoImage

\* What the callback leaves of a run whose yOffset it has brought to y:
\* the layer of the Image is processed and drawNext(index - 1) has run.
callbackAt(run, event, y) ==
    [started   |-> TRUE,
     yOffset   |-> y,
     image     |-> drawNext(run.image.index - 1, y),
     processed |-> Append(run.processed,
                          [index |-> run.image.index, yOffset |-> run.image.yOffset]),
     event     |-> event]

\* The variant of the callback that moves on without adding to yOffset.
callback_sameOffset(run, event, layupData, thicknessScale) ==
    callbackAt(run, event, run.yOffset)

\* The callback given to drawLayer, run by the Image's handler `event`:
\* yOffset += layupData[index].thickness * thicknessScale; drawNext(index - 1).
\* The product h and the sum y are bound as values, each computed once.
callback(run, event, layupData, thicknessScale) ==
    CHOOSE next \in {callbackAt(run, event, y) :
                        y \in {Add(run.yOffset, h) :
                                  h \in {Mul(layupData[run.image.index + 1].thickness,
                                             thicknessScale)}}} : TRUE

analysisVars ==
    <<copy, analyzer, beam, bundles, outcome, firstEval, chart, canvasChart, liveCharts>>

\* LayupDrawer.drawLayup(layupData): the scale and the chart
DrawLayup(layupData) ==
    /\ ~layup.called
    /\ layup' = [layup EXCEPT
                    !.called = TRUE,
                    !.layupData = layupData,
                    !.thicknessScale = Div(Num(canvasHeight), totalThickness(layupData))]
    /\ UNCHANGED analysisVars

\* animation.onComplete: the inner drawLayup(layupData, chartArea)
OnComplete(r) ==
    /\ layup.called
    /\ ~layup.runs[r].started
    /\ layup' = [layup EXCEPT !.runs[r] =
                    [started |-> TRUE, yOffset |-> Zero,
                     image |-> drawNext(Len(layup.layupData) - 1, Zero),
                     processed |-> <<>>, event |-> "none"]]
    /\ UNCHANGED analysisVars

\* imgLayer.onload of the Image the run awaits
ImgOnload(r) ==
    /\ layup.runs[r].image # NoImage
    /\ layup' = [layup EXCEPT !.runs[r] =
                    callback(layup.runs[r], "load", layup.layupData,
                             layup.thicknessScale)]
    /\ UNCHANGED analysisVars

\* imgLayer.onerror of the Image the run awaits
ImgOnerror(r) ==
    /\ layup.runs[r].image # NoImage
    /\ layup' = [layup EXCEPT !.runs[r] =
                    callback(layup.runs[r], "error", layup.layupData,
                             layup.thicknessScale)]
    /\ UNCHANGED analysisVars

(***************************************************************************)
(* Specifications                                                          *)
(***************************************************************************)
Registered == {"simply-supported", "two-span-unequal"}

Start(beams) ==
    /\ copy \in {1, 2}
    /\ analyzer = IF copy = 1 THEN BeamAnalysisV1_constructor
                  ELSE BeamAnalysis_constructor
    /\ beam \in beams
    /\ bundles = [s \in Slots |-> None]
    /\ outcome = [op |-> "init"]
    /\ firstEval = None
    /\ chart = None
    /\ canvasChart = None
    /\ liveCharts = 0
    /\ layup = NotDrawn

\* The caller's session: one Beam analysed under both conditions, the
\* two-span bundle held in slot 1 and the simply supported one in slot 2,
\* evaluated and plotted in any order.
Init == Start({Beam(Num(2), Num(1), Clt)})

SlotConditions(s) ==
    IF s = 1 THEN {"two-span-unequal", "unknown"}
    ELSE {"simply-supported", "constructor"}

Next ==
    \/ \E s \in Slots : \E w \in SmallLoads, c \in SlotConditions(s) : GetDeflection(s, w, c)
    \/ \E s \in Slots : \E w \in SmallLoads, c \in SlotConditions(s) : GetBendingMoment(s, w, c)
    \/ \E s \in Slots : \E w \in SmallLoads, c \in SlotConditions(s) : GetShearForce(s, w, c)
    \/ \E s \in Slots, x \in SmallPositions : EvaluateNoting(s, x)
    \/ \E s \in Slots : Plot(s)
    \/ Reset

Spec == Init /\ [][Next]_vars

\* The equations as functions: one bundle at a time, over every span, load,
\* material and position of the bounds.
InitEq ==
    Start({Beam(p, q, Clt) : p \in Spans, q \in Spans}
          \cup {Beam(Num(2), Num(1), Bare)})

NextEq ==
    \/ \E w \in Loads, c \in Conditions : GetDeflection(1, w, c)
    \/ \E w \in Loads, c \in Conditions : GetBendingMoment(1, w, c)
    \/ \E w \in Loads, c \in Conditions : GetShearForce(1, w, c)
    \/ \E x \in Positions : Evaluate(1, x)

SpecEq == InitEq /\ [][NextEq]_vars

\* The equations called with arguments that are not numbers: a string, no
\* argument at all (undefined), and two numbers for comparison.
Arguments == {Str("abc"), Undefined, Num(1), Num(2)}

InitIn == Start({Beam(p, q, Clt) : p \in {Num(1), Num(2)}, q \in {Num(1), Num(2)}})

NextIn ==
    \/ \E w \in SmallLoads, c \in Conditions : GetDeflection(1, w, c)
    \/ \E w \in SmallLoads, c \in Conditions : GetBendingMoment(1, w, c)
    \/ \E w \in SmallLoads, c \in Conditions : GetShearForce(1, w, c)
    \/ \E x \in Arguments : Evaluate(1, x)

SpecIn == InitIn /\ [][NextIn]_vars

\* A session with the original plotter: the bundles of slot 1 obtained for
\* the Beam and plotted, the chart reset, in any order.  The first Beam's
\* loops end on a multiple of the step, where the drift of x decides the
\* number of positions; the second Beam's primary span is halfway between
\* two multiples of 1/100, where the label's rounding has two outcomes.
InitJs == Start({Beam(Num(2), Num(1), Clt), Beam(Rat(201, 200), Zero, Clt)})

NextJs ==
    \/ \E w \in SmallLoads, c \in SlotConditions(1) : GetDeflection(1, w, c)
    \/ \E w \in SmallLoads, c \in SlotConditions(1) : GetBendingMoment(1, w, c)
    \/ \E w \in SmallLoads, c \in SlotConditions(1) : GetShearForce(1, w, c)
    \/ PlotJs(1)
    \/ ResetJs

SpecJs == InitJs /\ [][NextJs]_vars

\* Plotting beams whose primary span is, or is not, a multiple of the
\* sampling step.
PlotSpans == {Zero, Num(1), Rat(5, 4), Num(2)}

InitPlot == Start({Beam(p, q, Clt) : p \in PlotSpans, q \in {Zero, Num(1)}})

NextPlot ==
    \/ \E w \in SmallLoads, c \in Registered : GetDeflection(1, w, c)
    \/ \E w \in SmallLoads, c \in Registered : GetBendingMoment(1, w, c)
    \/ \E w \in SmallLoads, c \in Registered : GetShearForce(1, w, c)
    \/ Plot(1)
    \/ Reset

SpecPlot == InitPlot /\ [][NextPlot]_vars

\* Drawing a layup of up to MaxLayers layers; every Image a chain awaits
\* eventually loads or fails.
MaxLayers == 3

LayerKinds == {[thickness |-> Num(20), angle |-> 0], [thickness |-> Num(40), angle |-> 90]}

Layups == UNION {[1..n -> LayerKinds] : n \in 0..MaxLayers}

NextLayup ==
    \/ \E layupData \in Layups : DrawLayup(layupData)
    \/ \E r \in Runs : OnComplete(r)
    \/ \E r \in Runs : ImgOnload(r)
    \/ \E r \in Runs : ImgOnerror(r)

SpecLayup ==
    /\ Init
    /\ [][NextLayup]_vars
    /\ \A r \in Runs : WF_vars(ImgOnload(r) \/ ImgOnerror(r))

(***************************************************************************)
(* Properties                                                              *)
(***************************************************************************)
IsFacade(o) == o.op \in {"getDeflection", "getBendingMoment", "getShearForce"}

IsEquation(o) == o.op = "equation"

\* The closure the last equation call was made on.
Called == bundles[outcome.slot].equation

SimplyFns ==
    {"simplySupported.deflection", "simplySupported.bendingMoment",
     "simplySupported.shearForce", "simplySupportedV1.deflection",
     "simplySupportedV1.bendingMoment", "simplySupportedV1.shearForce"}

\* The end of the valid domain of a closure: L, or L1 + L2.
TotalSpan(c) ==
    IF c.fn \in SimplyFns THEN c.primarySpan
    ELSE Add(c.primarySpan, c.secondarySpan)

OutOfDomain(c, x) == Lt(x, Zero) \/ Gt(x, TotalSpan(c))

Positive(v) == Gt(v, Zero)

\* C1: a facade call with a condition tag other than the two registered ones
\* raises the "Invalid condition" error.
C1_InvalidConditionRaises ==
    (IsFacade(outcome) /\ outcome.args.condition \notin Registered)
        => outcome.result = Throw("Error", "Invalid condition")

\* C2: an equation called at a numeric x outside its valid domain returns a
\* point {x, y} whose y is null.
C2_OutOfDomainIsNullPoint ==
    (IsEquation(outcome) /\ OutOfDomain(Called, outcome.x))
        => /\ outcome.result.t = "object"
           /\ DOMAIN outcome.result = {"t", "x", "y"}
           /\ outcome.result.x = outcome.x
           /\ outcome.result.y = Null

\* C3: for L1 > 0 and L2 > 0 the two-span shear force equation at x = L1
\* returns a pair [left, right] of points at x = L1 with
\* right.y - left.y = R2.
C3_ShearJumpIsR2 ==
    (/\ IsEquation(outcome)
     /\ Called.fn = "twoSpanUnequal.shearForce"
     /\ Positive(Called.primarySpan)
     /\ Positive(Called.secondarySpan)
     /\ outcome.x = Called.primarySpan)
        => /\ outcome.result.t = "array"
           /\ Len(outcome.result.items) = 2
           /\ \A i \in 1..2 : outcome.result.items[i].x = Called.primarySpan
           /\ Sub(outcome.result.items[2].y, outcome.result.items[1].y)
                = twoSpanUnequal_shearForceReactions(Called).R2

C3_Witness ==
    /\ IsEquation(outcome)
    /\ Called.fn = "twoSpanUnequal.shearForce"
    /\ Called.primarySpan = Num(3)
    /\ Called.secondarySpan = Num(2)
    /\ Called.load = Num(5)
    /\ outcome.x = Num(3)
    /\ outcome.result.t = "array"
    /\ outcome.result.items[1].y = Rat(-39, 4)
    /\ outcome.result.items[2].y = Rat(67, 8)

\* C4: for positive L1, L2 and w the reactions of the two-span analyzer
\* satisfy R1 + R2 + R3 = w * (L1 + L2), and the deflection, bending moment
\* and shear force equations compute the same R1, R2, R3.
Equilibrium(r, c) ==
    Add(Add(r.R1, r.R2), r.R3) = Mul(c.load, Add(c.primarySpan, c.secondarySpan))

SameReactions(r, q) == r.R1 = q.R1 /\ r.R2 = q.R2 /\ r.R3 = q.R3

C4_ReactionsBalance ==
    (/\ IsEquation(outcome)
     /\ Called.fn \in {"twoSpanUnequal.deflection", "twoSpanUnequal.bendingMoment",
                       "twoSpanUnequal.shearForce"}
     /\ Positive(Called.primarySpan)
     /\ Positive(Called.secondarySpan)
     /\ Positive(Called.load))
        => /\ Equilibrium(twoSpanUnequal_deflectionReactions(Called), Called)
           /\ Equilibrium(twoSpanUnequal_bendingMomentReactions(Called), Called)
           /\ Equilibrium(twoSpanUnequal_shearForceReactions(Called), Called)
           /\ SameReactions(twoSpanUnequal_deflectionReactions(Called),
                            twoSpanUnequal_bendingMomentReactions(Called))
           /\ SameReactions(twoSpanUnequal_bendingMomentReactions(Called),
                            twoSpanUnequal_shearForceReactions(Called))

C4_Witness ==
    /\ IsEquation(outcome)
    /\ Called.fn = "twoSpanUnequal.bendingMoment"
    /\ Called.primarySpan = Num(3)
    /\ Called.secondarySpan = Num(2)
    /\ Called.load = Num(5)
    /\ twoSpanUnequal_bendingMomentReactions(Called)
         = [M1 |-> Rat(-27, 4), R1 |-> Rat(21, 4), R3 |-> Rat(13, 8),
            R2 |-> Rat(145, 8)]

\* C5: the simply supported bending moment equation returns {x, y} with
\* y = w*x*(L - x)/2 on [0, L]: 0 at x = 0 and x = L, and {x: 2, y: 20}
\* for L = 4, w = 10, x = 2.
C5_SimplyMoment ==
    (/\ IsEquation(outcome)
     /\ Called.fn \in {"simplySupported.bendingMoment",
                       "simplySupportedV1.bendingMoment"}
     /\ ~OutOfDomain(Called, outcome.x))
        => LET L == Called.primarySpan
               w == Called.load
               x == outcome.x
           IN  /\ outcome.result =
                    Point(x, Div(Sub(Mul(Mul(w, x), L), Mul(w, MathPow(x, 2))),
                                 Num(2)))
               /\ (x = Zero \/ x = L) => outcome.result.y = Zero
               /\ (L = Num(4) /\ w = Num(10) /\ x = Num(2))
                    => outcome.result = Point(Num(2), Num(20))

C5_Witness ==
    /\ IsEquation(outcome)
    /\ Called.fn = "simplySupported.bendingMoment"
    /\ Called.primarySpan = Num(4)
    /\ Called.load = Num(10)
    /\ outcome.x = Num(2)
    /\ outcome.result = Point(Num(2), Num(20))

\* C6: the simply supported shear force equation returns {x, y} with
\* y = w*(L/2 - x) on [0, L]: zero at midspan, w*L/2 at x = 0 and -w*L/2
\* at x = L (20 and -20 for L = 4, w = 10).
C6_SimplyShear ==
    (/\ IsEquation(outcome)
     /\ Called.fn \in {"simplySupported.shearForce", "simplySupportedV1.shearForce"}
     /\ ~OutOfDomain(Called, outcome.x))
        => LET L == Called.primarySpan
               w == Called.load
               x == outcome.x
               half == Div(Mul(w, L), Num(2))
           IN  /\ outcome.result = Point(x, Sub(half, Mul(w, x)))
               /\ Add(x, x) = L => outcome.result.y = Zero
               /\ x = Zero => outcome.result.y = half
               /\ x = L => outcome.result.y = Neg(half)
               /\ (L = Num(4) /\ w = Num(10) /\ x = Zero)
                    => outcome.result.y = Num(20)
               /\ (L = Num(4) /\ w = Num(10) /\ x = Num(4))
                    => outcome.result.y = Num(-20)

C6_Witness ==
    /\ IsEquation(outcome)
    /\ Called.fn = "simplySupported.shearForce"
    /\ Called.primarySpan = Num(4)
    /\ Called.load = Num(10)
    /\ outcome.x = Num(4)
    /\ outcome.result = Point(Num(4), Num(-20))

\* C7: with EI (and j2 where it is read) present and non-zero, the simply
\* supported deflection equation returns y = 0 at x = 0 and at x = L.
PresentNonZero(v) == v.k = "fin" /\ v.n # 0

C7_SimplyDeflectionEnds ==
    (/\ IsEquation(outcome)
     /\ Called.fn \in {"simplySupported.deflection", "simplySupportedV1.deflection"}
     /\ PresentNonZero(Called.EI)
     /\ Called.fn = "simplySupported.deflection" => PresentNonZero(Called.j2)
     /\ outcome.x \in {Zero, Called.primarySpan})
        => outcome.result = Point(outcome.x, Zero)

C7_Witness ==
    /\ IsEquation(outcome)
    /\ Called.fn = "simplySupported.deflection"
    /\ Called.primarySpan = Num(3)
    /\ Called.load = Num(5)
    /\ outcome.x = Num(3)
    /\ outcome.result = Point(Num(3), Zero)

\* C8: a facade call with a valid condition returns a bundle with exactly
\* the fields beam, load, condition and equation, the first three being the
\* arguments passed in.
C8_BundleFields ==
    (IsFacade(outcome) /\ outcome.args.condition \in Registered)
        => /\ outcome.result.t = "return"
           /\ DOMAIN outcome.result.value = {"beam", "load", "condition", "equation"}
           /\ outcome.result.value.beam = outcome.args.beam
           /\ outcome.result.value.load = outcome.args.load
           /\ outcome.result.value.condition = outcome.args.condition
           /\ "fn" \in DOMAIN outcome.result.value.equation

\* C9: a facade call or an equation call leaves the Beam (spans and
\* material, with its properties) and the analyzer registry unchanged.
C9_AnalysisFrame ==
    [][(IsFacade(outcome') \/ IsEquation(outcome'))
          => (beam' = beam /\ analyzer' = analyzer)]_vars

C9_Witness ==
    /\ IsEquation(outcome)
    /\ chart # None
    /\ beam = Beam(Num(2), Zero, Clt)
    /\ analyzer = BeamAnalysis_constructor

\* C10: calling the same equation closure again at the same x, whatever was
\* called or plotted in between, returns the result the first call returned.
C10_RepeatableEquation ==
    (/\ IsEquation(outcome)
     /\ firstEval # None
     /\ firstEval.slot = outcome.slot
     /\ firstEval.x = outcome.x)
        => outcome.result = firstEval.result

\* A two-span closure called at the end of its second span, before and after
\* plot has set the Beam's secondarySpan to 0.
C10_Witness ==
    /\ IsEquation(outcome)
    /\ firstEval # None
    /\ firstEval.slot = outcome.slot
    /\ firstEval.x = outcome.x
    /\ Called.fn = "twoSpanUnequal.shearForce"
    /\ outcome.x = Num(3)
    /\ Called.secondarySpan = Num(1)
    /\ beam.secondarySpan = Zero
    /\ outcome.result.t = "object"
    /\ outcome.result.y # Null

\* C11: each of the three equations of the two-span analyzer, called with an
\* x that is not a number, returns the invalid-input string: it does not
\* throw, return a point or return nothing.
TwoSpanFns ==
    {"twoSpanUnequal.deflection", "twoSpanUnequal.bendingMoment",
     "twoSpanUnequal.shearForce"}

C11_NonNumericIsInvalidInput ==
    (IsEquation(outcome) /\ Called.fn \in TwoSpanFns /\ ~IsNumber(outcome.x))
        => outcome.result = InvalidInput

\* C12: for L1 > 0 and L2 > 0 the two-span bending moment equation returns
\* the point y = R1*x - w*x^2/2 for 0 < x < L1, the point
\* y = R1*x + R2*(x - L1) - w*x^2/2 for L1 < x < L1 + L2, and at x = L1 the
\* pair [left, right] of the two forms evaluated at L1.
MomentSpan1(r, w, x) == Mul(x, Sub(r.R1, Div(Mul(w, x), Num(2))))

MomentSpan2(r, w, L1, x) == Add(MomentSpan1(r, w, x), Mul(r.R2, Sub(x, L1)))

C12_TwoSpanMomentForms ==
    (/\ IsEquation(outcome)
     /\ Called.fn = "twoSpanUnequal.bendingMoment"
     /\ IsNumber(outcome.x)
     /\ Positive(Called.primarySpan)
     /\ Positive(Called.secondarySpan))
        => LET r  == twoSpanUnequal_bendingMomentReactions(Called)
               w  == Called.load
               L1 == Called.primarySpan
               x  == outcome.x
           IN  /\ (Gt(x, Zero) /\ Lt(x, L1))
                    => outcome.result = Point(x, MomentSpan1(r, w, x))
               /\ (Gt(x, L1) /\ Lt(x, TotalSpan(Called)))
                    => outcome.result = Point(x, MomentSpan2(r, w, L1, x))
               /\ x = L1
                    => outcome.result = Pair(Point(x, MomentSpan1(r, w, L1)),
                                             Point(x, MomentSpan2(r, w, L1, L1)))

C12_Witness ==
    /\ IsEquation(outcome)
    /\ Called.fn = "twoSpanUnequal.bendingMoment"
    /\ Called.primarySpan = Num(3)
    /\ Called.secondarySpan = Num(2)
    /\ Called.load = Num(5)
    /\ outcome.x = Num(3)
    /\ outcome.result = Pair(Point(Num(3), Rat(-27, 4)), Point(Num(3), Rat(-27, 4)))

\* C13: when the equation returns a pair at a sampled position, plot takes
\* the first element's y for the point of the primary series and the second
\* element's y for the point of the secondary series.
IsPlot(o) == o.op = "plot" /\ o.result.t = "return"

PairSplit(equation, points, i) ==
    \A j \in 1..Len(points) :
        \A r \in Outcomes(equation, points[j].x) :
            r.t = "array" => points[j].y = r.items[i].y

C13_PairsSplitBySeries ==
    IsPlot(outcome)
        => /\ PairSplit(bundles[outcome.slot].equation, outcome.pointsPrimary, 1)
           /\ PairSplit(bundles[outcome.slot].equation, outcome.pointsSecondary, 2)

\* C14: after plot of a bundle whose condition is simply-supported, the end
\* position x = primarySpan appears exactly once among the chart labels.
Occurrences(seq, v) == Cardinality({j \in 1..Len(seq) : seq[j] = v})

PlottedSimply ==
    /\ IsPlot(outcome)
    /\ "condition" \in DOMAIN bundles[outcome.slot]
    /\ bundles[outcome.slot].condition = "simply-supported"

C14_EndLabelOnce ==
    PlottedSimply => Occurrences(chart.labels, beam.primarySpan) = 1

\* C15: after any sequence of plot and reset calls on the plotter at most
\* one chart it created is not destroyed; this.chart is null exactly when
\* there is none, and otherwise is that chart; reset leaves this.chart null.
C15_OneLiveChart ==
    /\ liveCharts \in {0, 1}
    /\ chart = None <=> liveCharts = 0
    /\ chart # None => canvasChart = chart
    /\ outcome.op = "reset" => chart = None

\* A chart made by plot for the bundle of slot 2 while the bundle of slot 1
\* is held as well.
C15_Witness ==
    /\ IsPlot(outcome)
    /\ outcome.slot = 2
    /\ bundles[1] # None
    /\ chart # None
    /\ liveCharts = 1

\* C16: plot changes the caller's Beam only for a bundle whose condition is
\* simply-supported, and then sets secondarySpan to 0; for any other bundle
\* it leaves the Beam as it was.  No operation restores a secondarySpan of
\* 0, and plot leaves the bundles, with the spans their equations
\* captured, unchanged.
SimplyBundle(data) ==
    "condition" \in DOMAIN data /\ data.condition = "simply-supported"

C16_PlotBeamFrame ==
    [][/\ outcome'.op = "plot"
          => /\ bundles' = bundles
             /\ beam' = IF SimplyBundle(bundles[outcome'.slot])
                         THEN [beam EXCEPT !.secondarySpan = Zero]
                         ELSE beam
       /\ beam.secondarySpan = Zero => beam'.secondarySpan = Zero]_vars

\* The Beam after a simply supported bundle was plotted, with a two-span
\* bundle obtained before it still holding the span it captured.
C16_Witness ==
    /\ IsPlot(outcome)
    /\ SimplyBundle(bundles[outcome.slot])
    /\ beam.secondarySpan = Zero
    /\ bundles[1] # None
    /\ bundles[1].equation.secondarySpan = Num(1)

(***************************************************************************)
(* C17: the image chain of LayupDrawer.drawLayup                           *)
(***************************************************************************)
\* thickness * thicknessScale summed over the layers of index `from` and up
RECURSIVE HeightFrom(_, _, _)
HeightFrom(layupData, thicknessScale, from) ==
    IF from >= Len(layupData) THEN Zero
    ELSE Add(HeightFrom(layupData, thicknessScale, from + 1),
             Mul(layupData[from + 1].thickness, thicknessScale))

\* The layers of a run were processed last index first, one per handler, each
\* drawn at the height of the layers processed before it, and the Image the
\* run awaits is that of the next lower index, or none below index 0.
ChainInOrder(run) ==
    LET n == Len(layup.layupData)
        done == Len(run.processed)
    IN /\ done <= n
       /\ \A j \in 1..done :
            /\ run.processed[j].index = n - j
            /\ run.processed[j].yOffset =
                   HeightFrom(layup.layupData, layup.thicknessScale, n - j + 1)
       /\ run.started =>
            /\ run.yOffset = HeightFrom(layup.layupData, layup.thicknessScale, n - done)
            /\ run.image = IF done < n THEN drawLayer(n - done - 1, run.yOffset)
                           ELSE NoImage
       /\ ~run.started => run.processed = <<>> /\ run.image = NoImage

ChainDone(r) ==
    /\ layup.runs[r].started
    /\ layup.runs[r].image = NoImage
    /\ Len(layup.runs[r].processed) = Len(layup.layupData)

\* C17: each run of the inner drawLayup processes the layers one at a time from
\* the last index down to 0, layer i-1's Image being created only by the
\* handler (onload or onerror) of layer i's, with yOffset the sum of
\* thickness * thicknessScale of the layers already processed; and when every
\* Image loads or fails, a started run ends with every layer processed once
\* and no Image awaited.
C17_LayersChainedLastToFirst ==
    /\ [](\A r \in Runs : ChainInOrder(layup.runs[r]))
    /\ \A r \in Runs : (layup.runs[r].started ~> ChainDone(r))

\* Over three layers of unequal thickness one run is done, its last Image
\* loaded, and the other, the Image of layer 1 having failed, awaits layer 0's.
C17_Witness ==
    /\ Len(layup.layupData) = 3
    /\ layup.layupData[1].thickness # layup.layupData[3].thickness
    /\ \E r, q \in Runs :
         /\ ChainDone(r)
         /\ layup.runs[r].event = "load"
         /\ layup.runs[r].processed[3].index = 0
         /\ layup.runs[q].event = "error"
         /\ Len(layup.runs[q].processed) = 2
         /\ layup.runs[q].image = drawLayer(0, layup.runs[q].yOffset)

(***************************************************************************)
(* C18, C19: the two-span reactions and the values at the supports         *)
(***************************************************************************)
\* The reactions a two-span bending moment or shear force closure computes.
ReactionsOf(c) ==
    IF c.fn = "twoSpanUnequal.bendingMoment"
    THEN twoSpanUnequal_bendingMomentReactions(c)
    ELSE twoSpanUnequal_shearForceReactions(c)

\* The closure the same call returns for the beam with its spans exchanged.
Mirrored(c) ==
    [c EXCEPT !.primarySpan = c.secondarySpan, !.secondarySpan = c.primarySpan]

MomentOrShear == {"twoSpanUnequal.bendingMoment", "twoSpanUnequal.shearForce"}

\* C18: for positive L1, L2 and w, the left reaction R1 for spans (L1, L2) is
\* the right reaction R3 for spans (L2, L1), and M1 and R2 are the same for
\* (L1, L2) and (L2, L1).
C18_MirrorSymmetric ==
    (/\ IsEquation(outcome)
     /\ Called.fn \in MomentOrShear
     /\ Positive(Called.primarySpan)
     /\ Positive(Called.secondarySpan)
     /\ Positive(Called.load))
        => /\ ReactionsOf(Called).R1 = ReactionsOf(Mirrored(Called)).R3
           /\ ReactionsOf(Called).M1 = ReactionsOf(Mirrored(Called)).M1
           /\ ReactionsOf(Called).R2 = ReactionsOf(Mirrored(Called)).R2

\* C19: for L1 > 0 and L2 > 0 the two-span bending moment equation returns
\* y = 0 at x = 0 and at x = L1 + L2, and at x = L1 a pair whose two elements
\* have y = M1; the shear force equation returns y = R1 at x = 0 and y = -R3
\* at x = L1 + L2.
C19_SupportValues ==
    (/\ IsEquation(outcome)
     /\ Called.fn \in MomentOrShear
     /\ IsNumber(outcome.x)
     /\ Positive(Called.primarySpan)
     /\ Positive(Called.secondarySpan))
        => IF Called.fn = "twoSpanUnequal.bendingMoment"
           THEN /\ outcome.x = Zero => outcome.result = Point(Zero, Zero)
                /\ outcome.x = TotalSpan(Called)
                     => outcome.result = Point(outcome.x, Zero)
                /\ outcome.x = Called.primarySpan
                     => outcome.result =
                            Pair(Point(outcome.x, ReactionsOf(Called).M1),
                                 Point(outcome.x, ReactionsOf(Called).M1))
           ELSE /\ outcome.x = Zero
                     => outcome.result = Point(Zero, ReactionsOf(Called).R1)
                /\ outcome.x = TotalSpan(Called)
                     => outcome.result = Point(outcome.x, Neg(ReactionsOf(Called).R3))

\* The moment of the beam L1 = 1, L2 = 2 under w = 5 was taken at its right
\* end, x = 3, and is 0.
C19_Witness ==
    /\ IsEquation(outcome)
    /\ Called.fn = "twoSpanUnequal.bendingMoment"
    /\ Called.primarySpan = Num(1)
    /\ Called.secondarySpan = Num(2)
    /\ Called.load = Num(5)
    /\ outcome.x = Num(3)
    /\ outcome.result = Point(Num(3), Zero)
    /\ ReactionsOf(Called).R2 # Zero

=============================================================================
